---- MODULE Spec2Model ----
(***************************************************************************)
(* Model of Logic/Expression.py: propositional connectives as objects on  *)
(* a heap, their truth_value properties, the _is_true helper and the      *)
(* rewrite methods.                                                        *)
(*                                                                         *)
(* heap : the Expression objects constructed so far, in construction      *)
(*        order; an object's identity is its index.                       *)
(* last : the most recent call made by the client: the method, its        *)
(*        receiver (or argument), what it returned or raised, and the     *)
(*        operand slots _is_true was applied to while it ran.             *)
(***************************************************************************)
EXTENDS Integers, Sequences, FiniteSets, TLC

VARIABLES heap, last

vars == <<heap, last>>

\* ------------------------------------------------------------- bounds
\* Connectives in a client-built formula (rewrite specification).
MaxNodes == 2
\* Connectives in a client-built formula (evaluation specification).
MaxEvalNodes == 3
\* Connectives in a client-built formula (duck-typed leaves specification).
MaxDuckNodes == 1
\* Objects on the heap; rewrites stop allocating beyond it.
MaxHeap == 6

\* ------------------------------------------------------------- values
\* A Python value: a bool, a reference to an Expression object, an int,
\* None.  Absent marks an attribute the object does not have.
Bool(x) == [k |-> "bool", b |-> x, n |-> 0]
Ref(i) == [k |-> "ref", b |-> FALSE, n |-> i]
IntV(i) == [k |-> "int", b |-> FALSE, n |-> i]
NoneV == [k |-> "none", b |-> FALSE, n |-> 0]
Absent == [k |-> "absent", b |-> FALSE, n |-> 0]

BoolLeaves == {Bool(TRUE), Bool(FALSE)}
DuckLeaves == BoolLeaves \cup {IntV(0), IntV(2), NoneV}

BinaryClasses == {"Or", "And", "Conditional", "BiConditional"}

\* Python's truth test of a value (bool(v)), as `not`, `and`, `or`, `if` apply it.
Truthy(v) ==
    CASE v.k = "bool" -> v.b
      [] v.k = "int" -> v.n # 0
      [] v.k = "none" -> FALSE
      [] OTHER -> TRUE

\* ------------------------------------------------------- constructors
\* Expression.__init__ stores the operands as scope; UnaryExpression.__init__
\* sets a = scope[0].
NewUnary(h, cls, a) ==
    LET scope == <<a>>
    IN Append(h, [cls |-> cls, scope |-> scope, a |-> scope[1], b |-> Absent])

\* BinaryExpression.__init__ sets a = scope[0], b = scope[1].
NewBinary(h, cls, a, b) ==
    LET scope == <<a, b>>
    IN Append(h, [cls |-> cls, scope |-> scope, a |-> scope[1], b |-> scope[2]])

NewNot(h, a) == NewUnary(h, "Not", a)

IsInstance(h, v, cls) == v.k = "ref" /\ h[v.n].cls = cls

\* --------------------------------------------------------- evaluation
\* The outcome of a call: the exception raised ("none": it returned), the
\* value returned, and the operand slots _is_true was applied to, in order.
Returned(v, calls) == [exc |-> "none", val |-> v, calls |-> calls]
Raised(e, calls) == [exc |-> e, val |-> NoneV, calls |-> calls]

RECURSIVE TruthValue(_, _)
RECURSIVE IsTrue(_, _)

\* The attribute access exp.truth_value: the property of an Expression,
\* AttributeError on anything else.
GetTruthValue(h, exp) ==
    IF exp.k = "ref" THEN TruthValue(h, exp.n) ELSE Raised("AttributeError", <<>>)

\* A mutant: no except clause, the AttributeError escapes.
IsTrueUncaught(h, exp) == GetTruthValue(h, exp)

\* A mutant: a nested expression is returned as it is, not evaluated.
IsTrueShallow(h, exp) == Returned(exp, <<>>)

\* Expression._is_true: try exp.truth_value, except AttributeError: exp.
IsTrue(h, exp) ==
    LET r == GetTruthValue(h, exp)
    IN IF r.exc = "AttributeError" THEN Returned(exp, r.calls) ELSE r

\* The call self._is_true(self.<slot>) made by object o.
Resolve(h, o, slot) ==
    LET r == IsTrue(h, h[o][slot])
    IN [r EXCEPT !.calls = <<[obj |-> o, slot |-> slot]>> \o r.calls]

\* r2 evaluated after r1 returned: the calls of both.
After(r1, r2) == [r2 EXCEPT !.calls = r1.calls \o r2.calls]

\* Not.truth_value: not self._is_true(self.a)
NotTruthValue(h, o) ==
    LET ra == Resolve(h, o, "a")
    IN IF ra.exc # "none" THEN ra
       ELSE Returned(Bool(~Truthy(ra.val)), ra.calls)

\* A mutant: both operands are resolved before the test.
OrTruthValueEager(h, o) ==
    LET ra == Resolve(h, o, "a")
        rb == After(ra, Resolve(h, o, "b"))
    IN IF ra.exc # "none" THEN ra
       ELSE IF rb.exc # "none" THEN rb
       ELSE Returned(Bool(Truthy(ra.val) \/ Truthy(rb.val)), rb.calls)

\* A mutant: exclusive or.
OrTruthValueXor(h, o) ==
    LET ra == Resolve(h, o, "a")
        rb == After(ra, Resolve(h, o, "b"))
    IN Returned(Bool(Truthy(ra.val) # Truthy(rb.val)), rb.calls)

\* Or.truth_value: if not _is_true(a) and not _is_true(b): False else True.
\* Python's `and` does not evaluate its right operand when the left is false.
OrTruthValue(h, o) ==
    LET ra == Resolve(h, o, "a")
    IN IF ra.exc # "none" THEN ra
       ELSE IF Truthy(ra.val) THEN Returned(Bool(TRUE), ra.calls)
       ELSE LET rb == After(ra, Resolve(h, o, "b"))
            IN IF rb.exc # "none" THEN rb
               ELSE IF ~Truthy(rb.val) THEN Returned(Bool(FALSE), rb.calls)
               ELSE Returned(Bool(TRUE), rb.calls)

\* And.truth_value: if _is_true(a) and _is_true(b): True else False.
AndTruthValue(h, o) ==
    LET ra == Resolve(h, o, "a")
    IN IF ra.exc # "none" THEN ra
       ELSE IF ~Truthy(ra.val) THEN Returned(Bool(FALSE), ra.calls)
       ELSE LET rb == After(ra, Resolve(h, o, "b"))
            IN IF rb.exc # "none" THEN rb
               ELSE IF Truthy(rb.val) THEN Returned(Bool(TRUE), rb.calls)
               ELSE Returned(Bool(FALSE), rb.calls)

\* Conditional.truth_value: if not _is_true(a) or _is_true(b): True else False.
\* Python's `or` does not evaluate its right operand when the left is true.
ConditionalTruthValue(h, o) ==
    LET ra == Resolve(h, o, "a")
    IN IF ra.exc # "none" THEN ra
       ELSE IF ~Truthy(ra.val) THEN Returned(Bool(TRUE), ra.calls)
       ELSE LET rb == After(ra, Resolve(h, o, "b"))
            IN IF rb.exc # "none" THEN rb
               ELSE IF Truthy(rb.val) THEN Returned(Bool(TRUE), rb.calls)
               ELSE Returned(Bool(FALSE), rb.calls)

\* The second disjunct of BiConditional.truth_value, evaluated after r0:
\* not (_is_true(a) or _is_true(b)).
BiConditionalNeither(h, o, r0) ==
    LET ra == After(r0, Resolve(h, o, "a"))
    IN IF ra.exc # "none" THEN ra
       ELSE IF Truthy(ra.val) THEN Returned(Bool(FALSE), ra.calls)
       ELSE LET rb == After(ra, Resolve(h, o, "b"))
            IN IF rb.exc # "none" THEN rb
               ELSE Returned(Bool(~Truthy(rb.val)), rb.calls)

\* BiConditional.truth_value:
\* if (_is_true(a) and _is_true(b)) or (not (_is_true(a) or _is_true(b))).
BiConditionalTruthValue(h, o) ==
    LET ra == Resolve(h, o, "a")
    IN IF ra.exc # "none" THEN ra
       ELSE IF ~Truthy(ra.val) THEN BiConditionalNeither(h, o, ra)
       ELSE LET rb == After(ra, Resolve(h, o, "b"))
            IN IF rb.exc # "none" THEN rb
               ELSE IF Truthy(rb.val) THEN Returned(Bool(TRUE), rb.calls)
               ELSE BiConditionalNeither(h, o, rb)

\* The truth_value property of object o, by its class.
TruthValue(h, o) ==
    CASE h[o].cls = "Not" -> NotTruthValue(h, o)
      [] h[o].cls = "Or" -> OrTruthValue(h, o)
      [] h[o].cls = "And" -> AndTruthValue(h, o)
      [] h[o].cls = "Conditional" -> ConditionalTruthValue(h, o)
      [] h[o].cls = "BiConditional" -> BiConditionalTruthValue(h, o)

\* ------------------------------------------------------ Not's methods
\* Not.can_be_double_negated: isinstance(self.a, Not).
CanBeDoubleNegated(h, o) ==
    IF IsInstance(h, h[o].a, "Not") THEN Bool(TRUE) ELSE Bool(FALSE)

\* A mutant: only one negation is removed.
DoubleNegationOnce(h, o) ==
    IF IsInstance(h, h[o].a, "Not") THEN h[o].a ELSE NoneV

\* A mutant: without an inner Not the operand is handed back.
DoubleNegationOperand(h, o) ==
    IF IsInstance(h, h[o].a, "Not") THEN h[h[o].a.n].a ELSE h[o].a

\* Not.double_negation: if isinstance(self.a, Not): return self.a.a;
\* otherwise the method falls off its end and returns None.
DoubleNegation(h, o) ==
    IF IsInstance(h, h[o].a, "Not") THEN h[h[o].a.n].a ELSE NoneV

\* ----------------------------------------------------------- rewrites
\* Each rewrite constructs its result innermost first, left to right, and
\* returns the object constructed last.

\* A mutant: the outer negation is forgotten.
DemorgansLawOrNoOuterNot(h, o) ==
    LET n == Len(h)
        h1 == NewNot(h, h[o].a)
        h2 == NewNot(h1, h[o].b)
    IN NewBinary(h2, "And", Ref(n + 1), Ref(n + 2))

\* Or.demorgans_law_or: Not(And(Not(self.a), Not(self.b)))
DemorgansLawOrHeap(h, o) ==
    LET n == Len(h)
        h1 == NewNot(h, h[o].a)
        h2 == NewNot(h1, h[o].b)
        h3 == NewBinary(h2, "And", Ref(n + 1), Ref(n + 2))
    IN NewNot(h3, Ref(n + 3))

\* And.demorgan_law_and: Not(Or(Not(self.a), Not(self.b)))
DemorganLawAndHeap(h, o) ==
    LET n == Len(h)
        h1 == NewNot(h, h[o].a)
        h2 == NewNot(h1, h[o].b)
        h3 == NewBinary(h2, "Or", Ref(n + 1), Ref(n + 2))
    IN NewNot(h3, Ref(n + 3))

\* A mutant: the consequent is negated, not the antecedent.
DisjunctionConvertWrongSide(h, o) ==
    LET n == Len(h)
        h1 == NewNot(h, h[o].b)
    IN NewBinary(h1, "Or", h[o].a, Ref(n + 1))

\* A mutant: the receiver is turned into the disjunction in place.
DisjunctionConvertInPlace(h, o) ==
    LET n == Len(h)
        h1 == NewNot(h, h[o].a)
        h2 == NewBinary(h1, "Or", Ref(n + 1), h[o].b)
    IN [h2 EXCEPT ![o] = [@ EXCEPT !.cls = "Or", !.a = Ref(n + 1),
                                   !.scope = <<Ref(n + 1), h[o].b>>]]

\* Conditional.disjunction_convert: Or(Not(self.a), self.b)
DisjunctionConvertHeap(h, o) ==
    LET n == Len(h)
        h1 == NewNot(h, h[o].a)
    IN NewBinary(h1, "Or", Ref(n + 1), h[o].b)

\* A mutant: the same conditional twice.
ConditionalConvertOneWay(h, o) ==
    LET n == Len(h)
        h1 == NewBinary(h, "Conditional", h[o].a, h[o].b)
        h2 == NewBinary(h1, "Conditional", h[o].a, h[o].b)
    IN NewBinary(h2, "And", Ref(n + 1), Ref(n + 2))

\* BiConditional.conditional_convert:
\* And(Conditional(self.a, self.b), Conditional(self.b, self.a))
ConditionalConvertHeap(h, o) ==
    LET n == Len(h)
        h1 == NewBinary(h, "Conditional", h[o].a, h[o].b)
        h2 == NewBinary(h1, "Conditional", h[o].b, h[o].a)
    IN NewBinary(h2, "And", Ref(n + 1), Ref(n + 2))

\* ------------------------------------------------- the client's formulas
\* The objects no other object holds as an operand: the sub-formulas the
\* client has constructed and not yet passed to a constructor.
Pending(h) ==
    {o \in DOMAIN h :
        \A p \in DOMAIN h : \A j \in DOMAIN h[p].scope : h[p].scope[j] # Ref(o)}

Newest(S) == CHOOSE x \in S : \A y \in S : y <= x

\* The operand a client writing one nested constructor expression can pass
\* to Not: a leaf, or the sub-formula it constructed last.
UnaryOperands(L, h) ==
    L \cup (IF Pending(h) = {} THEN {} ELSE {Ref(Newest(Pending(h)))})

\* The operand pairs it can pass to a binary connective: leaves, the
\* sub-formula constructed last on either side of a leaf, or the two
\* sub-formulas constructed last, in the order they were constructed.
BinaryOperands(L, h) ==
    LET P == Pending(h)
    IN (L \X L)
       \cup (IF P = {} THEN {}
             ELSE {<<Ref(Newest(P)), l>> : l \in L}
                  \cup {<<l, Ref(Newest(P))>> : l \in L})
       \cup (IF Cardinality(P) < 2 THEN {}
             ELSE {<<Ref(Newest(P \ {Newest(P)})), Ref(Newest(P))>>})

\* What is left to construct fits a formula of at most max connectives:
\* each further pending sub-formula costs one more binary connective.
Fits(h, max) == Len(h) + Cardinality(Pending(h)) - 1 <= max

\* ------------------------------------------------------------ actions
NoCall == [op |-> "none", recv |-> NoneV, ret |-> NoneV, exc |-> "none",
           calls |-> <<>>]

Call(op, recv, r) ==
    [op |-> op, recv |-> recv, ret |-> r.val, exc |-> r.exc, calls |-> r.calls]

Objects == 1 .. Len(heap)

\* The client constructs Not(a), before its first call.
ConstructNot(L, max) ==
    /\ last = NoCall
    /\ Len(heap) < max
    /\ \E a \in UnaryOperands(L, heap) :
           /\ Fits(NewNot(heap, a), max)
           /\ heap' = NewNot(heap, a)
    /\ UNCHANGED last

\* The client constructs a binary connective, before its first call.
ConstructBinary(L, max) ==
    /\ last = NoCall
    /\ Len(heap) < max
    /\ \E cls \in BinaryClasses, ab \in BinaryOperands(L, heap) :
           /\ Fits(NewBinary(heap, cls, ab[1], ab[2]), max)
           /\ heap' = NewBinary(heap, cls, ab[1], ab[2])
    /\ UNCHANGED last

\* The client reads o.truth_value.
TruthValueCall(o) ==
    /\ last' = Call("truth_value", Ref(o), TruthValue(heap, o))
    /\ UNCHANGED heap

\* The client calls Expression._is_true(v).
IsTrueCall(v) ==
    /\ last' = Call("_is_true", v, IsTrue(heap, v))
    /\ UNCHANGED heap

\* The client reads o.can_be_double_negated of a Not.
CanBeDoubleNegatedCall(o) ==
    /\ heap[o].cls = "Not"
    /\ last' = Call("can_be_double_negated", Ref(o),
                    Returned(CanBeDoubleNegated(heap, o), <<>>))
    /\ UNCHANGED heap

\* The client calls o.double_negation() of a Not.
DoubleNegationCall(o) ==
    /\ heap[o].cls = "Not"
    /\ last' = Call("double_negation", Ref(o),
                    Returned(DoubleNegation(heap, o), <<>>))
    /\ UNCHANGED heap

\* A rewrite: the heap grows by the objects constructed and the call
\* returns the last of them.
Rewrite(op, o, h) ==
    /\ Len(h) <= MaxHeap
    /\ heap' = h
    /\ last' = Call(op, Ref(o), Returned(Ref(Len(h)), <<>>))

DemorgansLawOr(o) ==
    /\ heap[o].cls = "Or"
    /\ Rewrite("demorgans_law_or", o, DemorgansLawOrHeap(heap, o))

DemorganLawAnd(o) ==
    /\ heap[o].cls = "And"
    /\ Rewrite("demorgan_law_and", o, DemorganLawAndHeap(heap, o))

DisjunctionConvert(o) ==
    /\ heap[o].cls = "Conditional"
    /\ Rewrite("disjunction_convert", o, DisjunctionConvertHeap(heap, o))

ConditionalConvert(o) ==
    /\ heap[o].cls = "BiConditional"
    /\ Rewrite("conditional_convert", o, ConditionalConvertHeap(heap, o))

\* ----------------------------------------------------- specifications
Init ==
    /\ heap = <<>>
    /\ last = NoCall

\* Formulas over boolean leaves, every method.
Next ==
    \/ ConstructNot(BoolLeaves, MaxNodes)
    \/ ConstructBinary(BoolLeaves, MaxNodes)
    \/ \E o \in Objects : TruthValueCall(o)
    \/ \E o \in Objects : CanBeDoubleNegatedCall(o)
    \/ \E o \in Objects : DoubleNegationCall(o)
    \/ \E o \in Objects : DemorgansLawOr(o)
    \/ \E o \in Objects : DemorganLawAnd(o)
    \/ \E o \in Objects : DisjunctionConvert(o)
    \/ \E o \in Objects : ConditionalConvert(o)

Spec == Init /\ [][Next]_vars

\* The formula the client constructed last.
Root == Len(heap)

\* Deeper formulas over boolean leaves, evaluation only.
NextEval ==
    \/ ConstructNot(BoolLeaves, MaxEvalNodes)
    \/ ConstructBinary(BoolLeaves, MaxEvalNodes)
    \/ Root \in Objects /\ TruthValueCall(Root)

SpecEval == Init /\ [][NextEval]_vars

\* Formulas whose leaves may be any Python value, evaluation only.
NextDuck ==
    \/ ConstructNot(DuckLeaves, MaxDuckNodes)
    \/ ConstructBinary(DuckLeaves, MaxDuckNodes)
    \/ \E o \in Objects : TruthValueCall(o)
    \/ \E v \in DuckLeaves \cup {Ref(o) : o \in Objects} : IsTrueCall(v)

SpecDuck == Init /\ [][NextDuck]_vars

\* ------------------------------------------------------------- claims
\* The receiver of the last call and the object it names.
Recv == last.recv.n
RecvObj == heap[Recv]

\* The textbook value of a formula: a leaf by its truth, a connective by
\* its truth table over the values of its operands.
RECURSIVE StdEval(_, _)
StdEval(h, v) ==
    IF v.k # "ref" THEN Truthy(v)
    ELSE LET x == h[v.n]
         IN CASE x.cls = "Not" -> ~StdEval(h, x.a)
              [] x.cls = "Or" -> StdEval(h, x.a) \/ StdEval(h, x.b)
              [] x.cls = "And" -> StdEval(h, x.a) /\ StdEval(h, x.b)
              [] x.cls = "Conditional" -> StdEval(h, x.a) => StdEval(h, x.b)
              [] x.cls = "BiConditional" -> StdEval(h, x.a) <=> StdEval(h, x.b)

\* C1: over boolean leaves a and b, And(a,b).truth_value is (a and b),
\* Or(a,b).truth_value is (a or b), Conditional(a,b).truth_value is
\* (not a or b), BiConditional(a,b).truth_value is (a == b) and
\* Not(a).truth_value is (not a).
C1_TruthTables ==
    (/\ last.op = "truth_value"
     /\ \A j \in DOMAIN RecvObj.scope : RecvObj.scope[j].k = "bool")
    => LET a == RecvObj.a.b
           b == RecvObj.b.b
       IN /\ last.exc = "none"
          /\ RecvObj.cls = "And" => last.ret = Bool(a /\ b)
          /\ RecvObj.cls = "Or" => last.ret = Bool(a \/ b)
          /\ RecvObj.cls = "Conditional" => last.ret = Bool(~a \/ b)
          /\ RecvObj.cls = "BiConditional" => last.ret = Bool(a = b)
          /\ RecvObj.cls = "Not" => last.ret = Bool(~a)

\* Or(False, True).truth_value returned True.
C1_Witness ==
    /\ last.op = "truth_value"
    /\ RecvObj.cls = "Or"
    /\ RecvObj.scope = <<Bool(FALSE), Bool(TRUE)>>
    /\ last.ret = Bool(TRUE)

\* v refers to an object of class cls.
Is(v, cls) == v.k = "ref" /\ v.n \in DOMAIN heap /\ heap[v.n].cls = cls

\* The value the expression v evaluates to, and that of the receiver.
ValueOf(v) == TruthValue(heap, v.n).val

\* C2: demorgans_law_or returns the tree Not(And(Not(a), Not(b))) and
\* demorgan_law_and the tree Not(Or(Not(a), Not(b))), a and b being the
\* receiver's operands, and the tree returned has the receiver's truth value.
C2_DeMorgan ==
    \A ops \in {<<"demorgans_law_or", "Or", "And">>,
                <<"demorgan_law_and", "And", "Or">>} :
        last.op = ops[1] =>
            /\ RecvObj.cls = ops[2]
            /\ Is(last.ret, "Not")
            /\ Is(heap[last.ret.n].a, ops[3])
            /\ LET inner == heap[heap[last.ret.n].a.n]
               IN /\ Is(inner.a, "Not") /\ heap[inner.a.n].a = RecvObj.a
                  /\ Is(inner.b, "Not") /\ heap[inner.b.n].a = RecvObj.b
            /\ ValueOf(last.ret) = ValueOf(last.recv)

\* Or(True, False).demorgans_law_or() was called and returned.
C2_Witness ==
    /\ last.op = "demorgans_law_or"
    /\ RecvObj.scope = <<Bool(TRUE), Bool(FALSE)>>
    /\ ValueOf(last.ret) = Bool(TRUE)

\* C3: Conditional(a,b).disjunction_convert() returns the tree
\* Or(Not(a), b), which has the receiver's truth value.
C3_DisjunctionConvert ==
    last.op = "disjunction_convert" =>
        /\ RecvObj.cls = "Conditional"
        /\ Is(last.ret, "Or")
        /\ LET r == heap[last.ret.n]
           IN /\ Is(r.a, "Not") /\ heap[r.a.n].a = RecvObj.a
              /\ r.b = RecvObj.b
        /\ ValueOf(last.ret) = ValueOf(last.recv)

\* Conditional(True, False).disjunction_convert() was called and its
\* result is false.
C3_Witness ==
    /\ last.op = "disjunction_convert"
    /\ RecvObj.scope = <<Bool(TRUE), Bool(FALSE)>>
    /\ ValueOf(last.ret) = Bool(FALSE)

\* C4: BiConditional(a,b).conditional_convert() returns the tree
\* And(Conditional(a,b), Conditional(b,a)), which has the receiver's truth
\* value.
C4_ConditionalConvert ==
    last.op = "conditional_convert" =>
        /\ RecvObj.cls = "BiConditional"
        /\ Is(last.ret, "And")
        /\ LET r == heap[last.ret.n]
           IN /\ Is(r.a, "Conditional")
              /\ heap[r.a.n].scope = <<RecvObj.a, RecvObj.b>>
              /\ Is(r.b, "Conditional")
              /\ heap[r.b.n].scope = <<RecvObj.b, RecvObj.a>>
        /\ ValueOf(last.ret) = ValueOf(last.recv)

\* BiConditional(False, True).conditional_convert() was called and its
\* result is false.
C4_Witness ==
    /\ last.op = "conditional_convert"
    /\ RecvObj.scope = <<Bool(FALSE), Bool(TRUE)>>
    /\ ValueOf(last.ret) = Bool(FALSE)

\* C5: n.can_be_double_negated is true exactly when n's operand is a Not;
\* then n.double_negation() returns the inner Not's operand itself, which
\* resolves to the truth value of n.
C5_DoubleNegation ==
    /\ last.op = "can_be_double_negated" =>
           last.ret = Bool(Is(RecvObj.a, "Not"))
    /\ (last.op = "double_negation" /\ Is(RecvObj.a, "Not")) =>
           /\ last.exc = "none"
           /\ last.ret = heap[RecvObj.a.n].a
           /\ Truthy(IsTrue(heap, last.ret).val) = Truthy(ValueOf(last.recv))

\* Not(Not(True)).double_negation() returned True.
C5_Witness ==
    /\ last.op = "double_negation"
    /\ Is(RecvObj.a, "Not")
    /\ heap[RecvObj.a.n].a = Bool(TRUE)
    /\ last.ret = Bool(TRUE)

\* C6: the truth_value of a formula of any nesting over boolean leaves is
\* its textbook value, every operand resolved to itself when a boolean and
\* to its own truth_value when an expression.
C6_RecursiveEvaluation ==
    last.op = "truth_value" =>
        /\ last.exc = "none"
        /\ last.ret = Bool(StdEval(heap, last.recv))
        /\ \A j \in DOMAIN RecvObj.scope :
               LET v == RecvObj.scope[j]
               IN IsTrue(heap, v).val = IF v.k = "bool" THEN v ELSE ValueOf(v)

\* And(Or(True, False), Not(False)).truth_value returned True.
C6_Witness ==
    /\ last.op = "truth_value"
    /\ heap = NewBinary(NewNot(NewBinary(<<>>, "Or", Bool(TRUE), Bool(FALSE)),
                               Bool(FALSE)),
                        "And", Ref(1), Ref(2))
    /\ last.recv = Ref(3)
    /\ last.ret = Bool(TRUE)

\* The last call resolved an operand that is neither a boolean nor an
\* expression: _is_true of one, or truth_value of a connective holding one.
ResolvedDuckOperand ==
    \/ last.op = "_is_true" /\ last.recv.k \in {"int", "none"}
    \/ /\ last.op = "truth_value"
       /\ \E j \in DOMAIN RecvObj.scope : RecvObj.scope[j].k \in {"int", "none"}

\* C7 as stated: resolving an operand that is neither a boolean nor an
\* expression ends in an error, not in a value.
C7_AsStated == ResolvedDuckOperand => last.exc # "none"

\* C7, amended: resolving an int or None operand raises nothing; _is_true
\* returns the operand itself, and truth_value of a connective holding one
\* returns the boolean its truth table gives for the operand's Python truth.
C7_DuckTyped ==
    ResolvedDuckOperand =>
        /\ last.exc = "none"
        /\ last.op = "_is_true" => last.ret = last.recv
        /\ last.op = "truth_value" => last.ret = Bool(StdEval(heap, last.recv))

\* Not(2).truth_value returned False.
C7_Witness ==
    /\ last.op = "truth_value"
    /\ RecvObj.cls = "Not"
    /\ RecvObj.a = IntV(2)
    /\ last.exc = "none"
    /\ last.ret = Bool(FALSE)

\* C8: double_negation() of a Not whose operand is not a Not raises
\* nothing and returns None, neither the operand nor the receiver, and the
\* heap is as it was before the call.
C8_DoubleNegationAbsent ==
    [][(/\ last'.op = "double_negation"
        /\ ~IsInstance(heap', heap'[last'.recv.n].a, "Not"))
       => /\ last'.exc = "none"
          /\ last'.ret = NoneV
          /\ last'.ret # heap'[last'.recv.n].a
          /\ last'.ret # last'.recv
          /\ heap' = heap]_vars

\* Not(Or(..)).double_negation() returned None.
C8_Witness ==
    /\ last.op = "double_negation"
    /\ Is(RecvObj.a, "Or")
    /\ last.ret = NoneV

\* The call _is_true(self.<slot>) of the receiver was made during the last call.
Resolved(slot) ==
    \E i \in DOMAIN last.calls : last.calls[i] = [obj |-> Recv, slot |-> slot]

\* C9 as stated: Or(a,b).truth_value always resolves both a and b.
C9_AsStated ==
    (last.op = "truth_value" /\ RecvObj.cls = "Or")
    => Resolved("a") /\ Resolved("b")

\* C9, amended: Or(a,b).truth_value resolves a first, and resolves b
\* exactly when a resolved false.
C9_ShortCircuit ==
    (last.op = "truth_value" /\ RecvObj.cls = "Or")
    => /\ last.calls[1] = [obj |-> Recv, slot |-> "a"]
       /\ Resolved("b") <=> ~Truthy(IsTrue(heap, RecvObj.a).val)

\* Or(True, False).truth_value resolved only a.
C9_Witness ==
    /\ last.op = "truth_value"
    /\ RecvObj.cls = "Or"
    /\ RecvObj.scope = <<Bool(TRUE), Bool(FALSE)>>
    /\ last.calls = <<[obj |-> Recv, slot |-> "a"]>>

RewriteOps ==
    {"demorgans_law_or", "demorgan_law_and", "disjunction_convert",
     "conditional_convert"}

\* C10: no call changes an object already constructed: its scope, its a
\* and b (a = scope[0], b = scope[1]) and its truth_value stay as they
\* were, and a rewrite returns an object that did not exist before the call.
C10_ReceiverUnchanged ==
    [][/\ \A o \in DOMAIN heap : o \in DOMAIN heap' /\ heap'[o] = heap[o]
       /\ heap' # heap =>
              /\ \A o \in DOMAIN heap :
                     TruthValue(heap', o) = TruthValue(heap, o)
              /\ \A o \in DOMAIN heap' :
                     /\ heap'[o].a = heap'[o].scope[1]
                     /\ heap'[o].cls # "Not" => heap'[o].b = heap'[o].scope[2]
       /\ (heap' # heap /\ last'.op \in RewriteOps) =>
              /\ last'.ret.k = "ref"
              /\ last'.ret.n \in DOMAIN heap' \ DOMAIN heap
              /\ last'.ret # last'.recv]_vars

\* A Conditional was rewritten and is still the Conditional it was.
C10_Witness ==
    /\ last.op = "disjunction_convert"
    /\ RecvObj.cls = "Conditional"
    /\ RecvObj.scope = <<Bool(TRUE), Bool(FALSE)>>
    /\ last.ret.n > Recv

====
